---------------------------- MODULE Spec2Model ----------------------------
(***************************************************************************)
(* A model of src/ai.py: the sea-otter question answering core            *)
(* (answer_question), its text utilities, its rule table, its two source  *)
(* adapters and the parallel race of web_lookup.                           *)
(*                                                                         *)
(* Text is modelled by TLA+ strings, character for character.  TLA+        *)
(* strings are ASCII, so each non-ASCII character of the source is written *)
(* as one ASCII character that occurs nowhere else in the program's texts  *)
(* (lengths are unchanged):                                                *)
(*      ~  the ellipsis U+2026        *  the bullet U+2022                  *)
(*      ^  the apostrophe U+2019      @  the otter emoji U+1F9A6            *)
(*      #  the wave emoji U+1F30A                                           *)
(*                                                                         *)
(* Time is counted in tenths of a second.                                  *)
(***************************************************************************)
EXTENDS Integers, Sequences, FiniteSets, TLC

VARIABLES
    q,          \* answer_question: the question (after strip)
    pc,         \* position of the request thread
    now,        \* wall clock, in tenths of a second since the submit
    q2,         \* web_lookup: the query handed to the adapters
    tstate,     \* per adapter task: "idle", "queued" (submitted, not yet
                \* taken by a worker), "run" or "done"
    wikiStep,   \* wiki_answer: "search" or "summary" (the call in flight)
    wikiTitle,  \* wiki_answer: the title wiki_title_search returned
    callStart,  \* per adapter task: when its HTTP call in flight began
    result,     \* per adapter task: the value its future holds
    order,      \* history: the tasks in the order they completed
    queue,      \* as_completed: finished futures not yet yielded, next first
    arrived,    \* as_completed: waiter.finished_futures, in completion order
    pending,    \* as_completed: futures not finished when it was entered
                \* and not yet yielded
    end_time,   \* as_completed: the deadline, timeout + the time of entry
    ans,        \* web_lookup: the answer it returns
    src,        \* web_lookup: the source label it returns
    winner,     \* history: the future whose result web_lookup returns
    exc,        \* an exception is propagating out of web_lookup
    timedOut,   \* as_completed raised TimeoutError
    netCalls,   \* history: number of HTTP requests issued
    foundAt,    \* history: the time the race loop was left
    returnedAt, \* history: the time web_lookup returned to its caller
    reply,      \* answer_question: the returned string
    arg,        \* pure-function specifications: the input
    out         \* pure-function specifications: the output

vars == <<q, pc, now, q2, tstate, wikiStep, wikiTitle, callStart, result,
          order, queue, arrived, pending, end_time, ans, src, winner, exc,
          timedOut, netCalls, foundAt, returnedAt, reply, arg, out>>

----------------------------------------------------------------------------
(* Python's str operations, on TLA+ strings *)

Ellipsis == "~"

UpperLetters == "ABCDEFGHIJKLMNOPQRSTUVWXYZ"
LowerLetters == "abcdefghijklmnopqrstuvwxyz"

CharAt(s, i) == SubSeq(s, i, i)

\* str.lower() of the ASCII letters
LowerOf ==
    [c \in {CharAt(UpperLetters, i) : i \in 1..26} |->
        CharAt(LowerLetters, CHOOSE i \in 1..26 : CharAt(UpperLetters, i) = c)]

\* str.lower() of one ASCII character
LowerChar(c) == IF c \in DOMAIN LowerOf THEN LowerOf[c] ELSE c

RECURSIVE LowerRange(_, _, _)
LowerRange(s, lo, hi) ==
    IF lo > hi THEN ""
    ELSE IF lo = hi THEN LowerChar(CharAt(s, lo))
    ELSE LET mid == (lo + hi) \div 2
         IN  LowerRange(s, lo, mid) \o LowerRange(s, mid + 1, hi)

\* s.lower()
Lower(s) == LowerRange(s, 1, Len(s))

\* sub in s
Contains(s, sub) ==
    \E i \in 1..(Len(s) - Len(sub) + 1) : SubSeq(s, i, i + Len(sub) - 1) = sub

\* any(w in s for w in words)
ContainsAny(s, words) == \E w \in words : Contains(s, w)

\* the ASCII characters str.split(), str.strip() and the pattern \s treat
\* as whitespace: the space, TAB, LF, CR, FF, and the control characters
\* VT (11), FS (28), GS (29), RS (30) and US (31), which TLA+ has no escape
\* for and which stand in the strings below as themselves
VT == ""
FS == ""
GS == ""
RS == ""
US == ""
IsSpace(c) == c \in {" ", "\t", "\n", "\r", "\f", VT, FS, GS, RS, US}

\* s.strip()
Strip(s) ==
    LET idx == {i \in 1..Len(s) : ~IsSpace(CharAt(s, i))}
    IN  IF idx = {} THEN ""
        ELSE LET lo == CHOOSE i \in idx : \A j \in idx : i <= j
                 hi == CHOOSE i \in idx : \A j \in idx : i >= j
             IN  SubSeq(s, lo, hi)

\* s[:n]
SliceTo(s, n) ==
    IF n >= 0 THEN SubSeq(s, 1, IF n < Len(s) THEN n ELSE Len(s))
    ELSE SubSeq(s, 1, Len(s) + n)

\* the characters position i of s contributes to " ".join(s.split()): a
\* word's first character is preceded by one space unless it is the first
\* word
JoinSplitPiece(s, i) ==
    LET c == CharAt(s, i)
    IN  IF IsSpace(c) THEN ""
        ELSE IF /\ i > 1
                /\ IsSpace(CharAt(s, i - 1))
                /\ \E j \in 1..(i - 1) : ~IsSpace(CharAt(s, j))
             THEN " " \o c
             ELSE c

RECURSIVE JoinSplitRange(_, _, _)
JoinSplitRange(s, lo, hi) ==
    IF lo > hi THEN ""
    ELSE IF lo = hi THEN JoinSplitPiece(s, lo)
    ELSE LET mid == (lo + hi) \div 2
         IN  JoinSplitRange(s, lo, mid) \o JoinSplitRange(s, mid + 1, hi)

\* " ".join(s.split())
JoinSplit(s) == JoinSplitRange(s, 1, Len(s))

\* re.sub(r"[?!.]+$", "", s), for s without a trailing newline
DropTrailingPunct(s) ==
    LET keep == {i \in 1..Len(s) : CharAt(s, i) \notin {"?", "!", "."}}
    IN  IF keep = {} THEN ""
        ELSE SubSeq(s, 1, CHOOSE i \in keep : \A j \in keep : i >= j)

\* the characters position i of s contributes to re.sub(r"\s+", " ", s): a
\* run of whitespace is replaced by one space, at its first character
CollapsePiece(s, i) ==
    LET c == CharAt(s, i)
    IN  IF ~IsSpace(c) THEN c
        ELSE IF i > 1 /\ IsSpace(CharAt(s, i - 1)) THEN "" ELSE " "

RECURSIVE CollapseRange(_, _, _)
CollapseRange(s, lo, hi) ==
    IF lo > hi THEN ""
    ELSE IF lo = hi THEN CollapsePiece(s, lo)
    ELSE LET mid == (lo + hi) \div 2
         IN  CollapseRange(s, lo, mid) \o CollapseRange(s, mid + 1, hi)

\* re.sub(r"\s+", " ", s)
CollapseSpaces(s) == CollapseRange(s, 1, Len(s))

----------------------------------------------------------------------------
(* small utilities *)

clean(s) == CollapseSpaces(DropTrailingPunct(Strip(s)))

ReplyLimit == 240

\* short, cutting at limit instead of limit - 1 (a variant the length
\* bound must tell apart)
short_cut_at_limit(text, limit) ==
    LET t == JoinSplit(text)
    IN  IF Len(t) > limit THEN SliceTo(t, limit) \o Ellipsis ELSE t

short(text, limit) ==
    LET t == JoinSplit(text)
    IN  IF Len(t) > limit THEN SliceTo(t, limit - 1) \o Ellipsis ELSE t

rewrite_for_topic(s) ==
    LET l == Lower(s)
    IN  IF ContainsAny(l, {"sea otter", "sea otters", "otters"})
        THEN IF ContainsAny(l, {"predator", "predators", "enemy", "enemies"})
             THEN "Sea otter predators"
             ELSE IF ContainsAny(l, {"decline", "drivers", "endangered",
                                     "threats", "why decreasing",
                                     "why declining", "reasons for decline",
                                     "causes of decline"})
             THEN "current threats to sea otters"
             ELSE IF ContainsAny(l, {"diet", "eat", "food"})
             THEN "Sea otter diet"
             ELSE IF ContainsAny(l, {"habitat", "live", "where do"})
             THEN "Sea otter habitat"
             ELSE IF ContainsAny(l, {"lifespan", "how long"})
             THEN "Sea otter lifespan"
             ELSE s
        ELSE s

----------------------------------------------------------------------------
(* tiny instant FAQs *)

HELP_ANSWER ==
    "If you see a sea otter that looks sick, injured, or in trouble:\n"
    \o "* Keep a safe distance and do not touch or move it.\n"
    \o "* Keep dogs and people away from the animal.\n"
    \o "* Call your local wildlife rescue / marine mammal center or stranding hotline.\n"
    \o "* Note the exact location and what the otter was doing so you can tell rescuers.\n"
    \o "Never try to feed or keep a wild sea otter as a pet."

PREDATORS_ANSWER ==
    "Main predators of sea otters are great white sharks and orcas (killer whales). "
    \o "Pups may be taken by bald eagles; on land, occasionally coyotes or bears. "
    \o "Historically, humans were the largest threat during the fur trade."

DRIVERS_ANSWER ==
    "Current drivers of sea otter decline include oil spills; entanglement in fishing gear; "
    \o "diseases from land runoff (e.g., Toxoplasma); prey depletion/urchin barrens with kelp loss; "
    \o "predation in some regions (sharks/orcas); pollution and disturbance; and climate-driven habitat change."

\* the three trigger tests of rule_answer, on the lowercased question
help_trigger(l) ==
    /\ Contains(l, "sea otter")
    /\ ContainsAny(l, {"help", "save", "injured", "hurt", "rescue",
                       "what can i do"})

predators_trigger(l) ==
    ContainsAny(l, {"main predators of sea otters", "predators of sea otters",
                    "sea otter predators", "who eats sea otters",
                    "what eats sea otters", "who preys on sea otters",
                    "enemy of sea otters", "predators of the sea otter"})

drivers_trigger(l) ==
    ContainsAny(l, {"drivers of decline", "main drivers of decline",
                    "current threats", "why are numbers declining",
                    "causes of decline", "endangerment causes",
                    "why are sea otters declining", "reasons for decline",
                    "drivers of sea otter decline",
                    "main drivers of sea otter decline today"})

\* rule_answer, with the predators group tested before help/rescue (a
\* variant the priority order must tell apart)
rule_answer_predators_first(s) ==
    LET l == Lower(s)
    IN  IF predators_trigger(l) THEN PREDATORS_ANSWER
        ELSE IF help_trigger(l) THEN HELP_ANSWER
        ELSE IF drivers_trigger(l) THEN DRIVERS_ANSWER
        ELSE ""

rule_answer(s) ==
    LET l == Lower(s)
    IN  IF help_trigger(l) THEN HELP_ANSWER
        ELSE IF predators_trigger(l) THEN PREDATORS_ANSWER
        ELSE IF drivers_trigger(l) THEN DRIVERS_ANSWER
        ELSE ""

----------------------------------------------------------------------------
(* values of the JSON payloads and of the adapters' results: a string, a  *)
(* number or null; Absent stands for a key the JSON object does not hold  *)

Str(s) == [t |-> "str", s |-> s, n |-> 0]
Num(n) == [t |-> "int", s |-> "", n |-> n]
None == [t |-> "none", s |-> "", n |-> 0]
Absent == [t |-> "absent", s |-> "", n |-> 0]

\* dict.get(key, default), v being the key's value
Get(v, default) == IF v.t = "absent" THEN default ELSE v

\* bool(v)
Truthy(v) ==
    CASE v.t = "str" -> v.s # ""
      [] v.t = "int" -> v.n # 0
      [] OTHER -> FALSE

\* v or ""
OrEmpty(v) == IF Truthy(v) THEN v ELSE Str("")

(* An HTTP exchange as the adapter sees it.  kind is "error" (requests.get *)
(* raised: transport error or timeout), "status" (not r.ok), "badjson"    *)
(* (r.json() raised), "nondict" (the JSON document is not an object) or   *)
(* "dict"; field is the value of the one scalar key the adapter reads     *)
(* (AbstractText, extract), listOk tells whether the list key             *)
(* (RelatedTopics, pages) is absent or holds a list, items are the list's *)
(* entries; an entry is a dict or not, value is its Text or title.        *)
Response(kind, field, listOk, items) ==
    [kind |-> kind, field |-> field, listOk |-> listOk, items |-> items]

Item(isdict, value) == [isdict |-> isdict, value |-> value]

Failure(kind) == Response(kind, Absent, TRUE, <<>>)

\* the first entry of RelatedTopics that is a dict with a truthy Text
FirstTopicText(items) ==
    LET hits == {i \in 1..Len(items) :
                    items[i].isdict /\ Truthy(Get(items[i].value, None))}
    IN  IF hits = {} THEN Str("")
        ELSE items[CHOOSE i \in hits : \A j \in hits : i <= j].value

ddg_answer(r) ==
    IF r.kind # "dict" THEN Str("")
    ELSE IF Truthy(Get(r.field, None)) THEN r.field
    ELSE IF ~r.listOk THEN Str("")
    ELSE FirstTopicText(r.items)

wiki_title_search(r) ==
    IF r.kind # "dict" THEN Str("")
    ELSE IF ~r.listOk \/ r.items = <<>> THEN Str("")
    ELSE IF ~r.items[1].isdict THEN Str("")
    ELSE Get(r.items[1].value, Str(""))

wiki_summary_from_title(r) ==
    IF r.kind # "dict" THEN Str("") ELSE Get(r.field, Str(""))

----------------------------------------------------------------------------
(* filters *)

\* is_sea_otter_question, accepting every question (a variant)
is_sea_otter_question_always(s) == TRUE

is_sea_otter_question(s) ==
    ContainsAny(Lower(s), {"sea otter", "sea otters", "otter", "otters"})

SEA_OTTER_ONLY_MESSAGES ==
    { "I^m focused on sea otters right now. Try asking me something about sea otters or their habitat. @",
      "I can^t answer that one, but I can help with sea otter facts, threats, or how to help them. @",
      "This bot is only trained for sea otter questions. Please ask me something about sea otters. #@" }

\* seems_relevant, accepting every answer (a variant)
seems_relevant_always(a, s) == TRUE

seems_relevant(a, s) ==
    ~(Contains(Lower(s), "otter") /\ ~Contains(Lower(a), "otter"))

FALLBACK_REPLY ==
    "I couldn^t find a good answer right now. "
    \o "Try rephrasing your question, or ask me another sea otter question. @"

----------------------------------------------------------------------------
(* the race of web_lookup *)

Adapters == {"ddg", "wiki"}     \* futs[0], futs[1]

CallTimeout == 14               \* timeout=1.4 of every requests.get
RaceTimeout == 34               \* timeout=3.4 of as_completed
QueryLimit == 120

\* requests applies its timeout to each wait on the socket (the connect,
\* then every read), not to the call, so the call itself has no limit: a
\* body that comes in pieces less than CallTimeout apart keeps it going.
\* SocketWaits bounds the waits of one call, so that it ends, with a
\* response or an exception, within CallLimit; CallLimit is beyond
\* RaceTimeout, and a single call can outlast the wait of as_completed
SocketWaits == 4
CallLimit == SocketWaits * CallTimeout

\* the clock's resolution
TimeStep == 5

\* SourceLabel, with the two labels exchanged (a variant)
SourceLabelSwapped(f) == IF f = "ddg" THEN "Wikipedia" ELSE "DuckDuckGo"

\* src = "DuckDuckGo" if fut == futs[0] else "Wikipedia"
SourceLabel(f) == IF f = "ddg" THEN "DuckDuckGo" ELSE "Wikipedia"

Min(S) == CHOOSE x \in S : \A y \in S : x <= y

\* the orders in which a set of futures can be listed
ListsOf(S) ==
    {l \in [1..Cardinality(S) -> S] : \A x \in S : \E i \in DOMAIN l : l[i] = x}

----------------------------------------------------------------------------
(* the inputs: questions, and what the two services may answer *)

Questions ==
    { "",
      "What's the weather today?",
      "How can I help an injured sea otter?",
      "what eats sea otters",
      "Why are sea otters declining?",
      "  What do sea otters eat??  ",
      "Where do OTTERS live",
      "What are the current threats to whales?" }

DDGText == "Sea otters eat sea urchins, crabs, clams and abalone."
DDGTopicText == "Sea otter - A marine mammal native to the North Pacific."
OffTopicText == "Paris is the capital of France"
BlankText == " \n "
WikiText == "The SEA OTTER (Enhydra lutris) is a marine mammal."
WikiSentence ==
    "The sea otter is a marine mammal native to the coasts of the northern and eastern North Pacific Ocean.\n"
WikiLongText ==
    WikiSentence \o " " \o WikiSentence \o WikiSentence

FailureKinds == {"error", "status", "badjson", "nondict"}

DDGResponses ==
    {Failure(k) : k \in FailureKinds}
    \cup { Response("dict", Str(DDGText), TRUE, <<>>),
           Response("dict", Str(OffTopicText), TRUE, <<>>),
           Response("dict", Str(BlankText), TRUE, <<>>),
           Response("dict", Num(7), TRUE, <<>>),
           Response("dict", Absent, FALSE, <<>>),
           Response("dict", Str(""), TRUE,
                    <<Item(FALSE, Absent), Item(TRUE, Absent),
                      Item(TRUE, Str(DDGTopicText))>>) }

WikiSearchResponses ==
    {Failure(k) : k \in FailureKinds}
    \cup { Response("dict", Absent, TRUE, <<>>),
           Response("dict", Absent, FALSE, <<>>),
           Response("dict", Absent, TRUE, <<Item(FALSE, Absent)>>),
           Response("dict", Absent, TRUE, <<Item(TRUE, Absent)>>),
           Response("dict", Absent, TRUE, <<Item(TRUE, None)>>),
           Response("dict", Absent, TRUE, <<Item(TRUE, Str("Sea otter"))>>),
           Response("dict", Absent, TRUE, <<Item(TRUE, Str("Otter"))>>) }

WikiSummaryResponses ==
    {Failure(k) : k \in FailureKinds}
    \cup { Response("dict", Absent, TRUE, <<>>),
           Response("dict", None, TRUE, <<>>),
           Response("dict", Str(""), TRUE, <<>>),
           Response("dict", Str(WikiText), TRUE, <<>>),
           Response("dict", Str(WikiLongText), TRUE, <<>>),
           Response("dict", Num(42), TRUE, <<>>) }

----------------------------------------------------------------------------
(* the state machine of one request *)

\* the values of the variables a step has not yet reached
Idle ==
    /\ now = 0
    /\ q2 = ""
    /\ tstate = [a \in Adapters |-> "idle"]
    /\ wikiStep = "search"
    /\ wikiTitle = None
    /\ callStart = [a \in Adapters |-> 0]
    /\ result = [a \in Adapters |-> None]
    /\ order = <<>>
    /\ queue = <<>>
    /\ arrived = <<>>
    /\ pending = {}
    /\ end_time = 0
    /\ ans = ""
    /\ src = ""
    /\ winner = "none"
    /\ exc = FALSE
    /\ timedOut = FALSE
    /\ netCalls = 0
    /\ foundAt = 0
    /\ returnedAt = 0
    /\ reply = ""

Init ==
    /\ q \in Questions
    /\ pc = "start"
    /\ arg = ""
    /\ out = ""
    /\ Idle

raceVars == <<now, q2, tstate, wikiStep, wikiTitle, callStart, result, order,
              queue, arrived, pending, end_time, ans, src, winner, exc,
              timedOut, netCalls, foundAt, returnedAt>>

\* answer_question, step 0: not a sea otter question
Refuse ==
    /\ pc = "start"
    /\ ~is_sea_otter_question(Strip(q))
    /\ q' = Strip(q)
    /\ \E m \in SEA_OTTER_ONLY_MESSAGES : reply' = m
    /\ pc' = "done"
    /\ UNCHANGED <<raceVars, arg, out>>

\* answer_question, step 1: a rule-based instant answer
RuleReply ==
    /\ pc = "start"
    /\ is_sea_otter_question(Strip(q))
    /\ rule_answer(Strip(q)) # ""
    /\ q' = Strip(q)
    /\ reply' = rule_answer(Strip(q))
    /\ pc' = "done"
    /\ UNCHANGED <<raceVars, arg, out>>

\* answer_question, step 2, up to the first ex.submit of web_lookup: the
\* query is built and ddg_answer is handed to the pool
SubmitDDG ==
    /\ pc = "start"
    /\ is_sea_otter_question(Strip(q))
    /\ rule_answer(Strip(q)) = ""
    /\ q' = Strip(q)
    /\ q2' = short(clean(rewrite_for_topic(Strip(q))), QueryLimit)
    /\ tstate' = [tstate EXCEPT !["ddg"] = "queued"]
    /\ pc' = "submit_wiki"
    /\ UNCHANGED <<now, wikiStep, wikiTitle, callStart, result, order, queue,
                   arrived, pending, end_time, ans, src, winner, exc,
                   timedOut, netCalls, foundAt, returnedAt, reply, arg, out>>

\* the second ex.submit: wiki_answer is handed to the pool
SubmitWiki ==
    /\ pc = "submit_wiki"
    /\ tstate' = [tstate EXCEPT !["wiki"] = "queued"]
    /\ pc' = "submitted"
    /\ UNCHANGED <<q, now, q2, wikiStep, wikiTitle, callStart, result, order,
                   queue, arrived, pending, end_time, ans, src, winner, exc,
                   timedOut, netCalls, foundAt, returnedAt, reply, arg, out>>

\* a worker thread of the pool takes a submitted task and runs it up to
\* its first requests.get
Start(a) ==
    /\ tstate[a] = "queued"
    /\ tstate' = [tstate EXCEPT ![a] = "run"]
    /\ callStart' = [callStart EXCEPT ![a] = now]
    /\ netCalls' = netCalls + 1
    /\ UNCHANGED <<q, pc, now, q2, wikiStep, wikiTitle, result, order, queue,
                   arrived, pending, end_time, ans, src, winner, exc,
                   timedOut, foundAt, returnedAt, reply, arg, out>>

StartDDG == Start("ddg")

StartWiki == Start("wiki")

\* a task's future gets its result; a waiter as_completed has installed is
\* told
Finish(a, v) ==
    /\ tstate' = [tstate EXCEPT ![a] = "done"]
    /\ result' = [result EXCEPT ![a] = v]
    /\ order' = Append(order, a)
    /\ arrived' = IF pc = "race" THEN Append(arrived, a) ELSE arrived

\* the ddg_answer task: its request ends
DDGRespond ==
    /\ tstate["ddg"] = "run"
    /\ \E r \in DDGResponses : Finish("ddg", ddg_answer(r))
    /\ UNCHANGED <<q, pc, now, q2, wikiStep, wikiTitle, callStart, queue,
                   pending, end_time, ans, src, winner, exc, timedOut,
                   netCalls, foundAt, returnedAt, reply, arg, out>>

\* the wiki_answer task: the title search ends without a title
WikiNoTitle ==
    /\ tstate["wiki"] = "run"
    /\ wikiStep = "search"
    /\ \E r \in WikiSearchResponses :
          /\ ~Truthy(wiki_title_search(r))
          /\ Finish("wiki", Str(""))
    /\ UNCHANGED <<q, pc, now, q2, wikiStep, wikiTitle, callStart, queue,
                   pending, end_time, ans, src, winner, exc, timedOut,
                   netCalls, foundAt, returnedAt, reply, arg, out>>

\* the wiki_answer task: the title search gives a title, the summary of
\* that page is requested
WikiTitle ==
    /\ tstate["wiki"] = "run"
    /\ wikiStep = "search"
    /\ \E r \in WikiSearchResponses :
          /\ Truthy(wiki_title_search(r))
          /\ wikiTitle' = wiki_title_search(r)
    /\ wikiStep' = "summary"
    /\ callStart' = [callStart EXCEPT !["wiki"] = now]
    /\ netCalls' = netCalls + 1
    /\ UNCHANGED <<q, pc, now, q2, tstate, result, order, queue, arrived,
                   pending, end_time, ans, src, winner, exc, timedOut,
                   foundAt, returnedAt, reply, arg, out>>

\* the wiki_answer task: the summary request ends
WikiSummary ==
    /\ tstate["wiki"] = "run"
    /\ wikiStep = "summary"
    /\ \E r \in WikiSummaryResponses :
          Finish("wiki", OrEmpty(wiki_summary_from_title(r)))
    /\ UNCHANGED <<q, pc, now, q2, wikiStep, wikiTitle, callStart, queue,
                   pending, end_time, ans, src, winner, exc, timedOut,
                   netCalls, foundAt, returnedAt, reply, arg, out>>

\* as_completed(futs, timeout=3.4) is entered: the futures already finished
\* are listed from a set, in no particular order, the others get a waiter
EnterAsCompleted ==
    /\ pc = "submitted"
    /\ LET finished == {a \in Adapters : tstate[a] = "done"}
       IN  /\ queue' \in ListsOf(finished)
           /\ pending' = Adapters \ finished
    /\ arrived' = <<>>
    /\ end_time' = now + RaceTimeout
    /\ pc' = "race"
    /\ UNCHANGED <<q, now, q2, tstate, wikiStep, wikiTitle, callStart,
                   result, order, ans, src, winner, exc, timedOut, netCalls,
                   foundAt, returnedAt, reply, arg, out>>

\* the loop body of web_lookup on the next future as_completed yields
Yield ==
    /\ pc = "race"
    /\ queue # <<>>
    /\ LET fut == Head(queue)
           a == OrEmpty(result[fut])
       IN  /\ queue' = Tail(queue)
           /\ pending' = pending \ {fut}
           /\ IF a.t # "str"
              THEN \* ans.strip() raises AttributeError
                   /\ exc' = TRUE
                   /\ pc' = "shutdown"
                   /\ foundAt' = now
                   /\ UNCHANGED <<ans, src, winner>>
              ELSE IF Strip(a.s) # ""
              THEN /\ ans' = a.s
                   /\ src' = SourceLabel(fut)
                   /\ winner' = fut
                   /\ pc' = "shutdown"
                   /\ foundAt' = now
                   /\ exc' = exc
              ELSE UNCHANGED <<ans, src, winner, pc, foundAt, exc>>
    /\ UNCHANGED <<q, now, q2, tstate, wikiStep, wikiTitle, callStart,
                   result, order, arrived, end_time, timedOut, netCalls,
                   returnedAt, reply, arg, out>>

\* as_completed, waiting: the waiter's event is set before the deadline,
\* the futures that finished meanwhile are taken over, in finishing order
Wake ==
    /\ pc = "race"
    /\ queue = <<>>
    /\ pending # {}
    /\ arrived # <<>>
    /\ now <= end_time
    /\ queue' = arrived
    /\ arrived' = <<>>
    /\ UNCHANGED <<q, pc, now, q2, tstate, wikiStep, wikiTitle, callStart,
                   result, order, pending, end_time, ans, src, winner, exc,
                   timedOut, netCalls, foundAt, returnedAt, reply, arg, out>>

\* as_completed raises TimeoutError, web_lookup passes
Timeout ==
    /\ pc = "race"
    /\ queue = <<>>
    /\ pending # {}
    /\ now >= end_time
    /\ timedOut' = TRUE
    /\ foundAt' = now
    /\ pc' = "shutdown"
    /\ UNCHANGED <<q, now, q2, tstate, wikiStep, wikiTitle, callStart,
                   result, order, queue, arrived, pending, end_time, ans,
                   src, winner, exc, netCalls, returnedAt, reply, arg, out>>

\* as_completed is exhausted: every future was yielded
Exhausted ==
    /\ pc = "race"
    /\ queue = <<>>
    /\ pending = {}
    /\ foundAt' = now
    /\ pc' = "shutdown"
    /\ UNCHANGED <<q, now, q2, tstate, wikiStep, wikiTitle, callStart,
                   result, order, queue, arrived, pending, end_time, ans,
                   src, winner, exc, timedOut, netCalls, returnedAt, reply,
                   arg, out>>

\* what answer_question makes of web_lookup's (ans, src): steps 3 and 4
FormatReply(a, s, question) ==
    IF a = "" \/ ~seems_relevant(a, question) THEN FALLBACK_REPLY
    ELSE IF s # "" THEN short(a, ReplyLimit) \o " (Source: " \o s \o ")"
    ELSE short(a, ReplyLimit)

\* the with block of web_lookup is left: ThreadPoolExecutor.__exit__ calls
\* shutdown(wait=True), which joins both workers; then web_lookup returns
\* and answer_question builds its reply
Return ==
    /\ pc = "shutdown"
    /\ ~exc
    /\ \A a \in Adapters : tstate[a] = "done"
    /\ returnedAt' = now
    /\ reply' = FormatReply(ans, src, q)
    /\ pc' = "done"
    /\ UNCHANGED <<q, now, q2, tstate, wikiStep, wikiTitle, callStart,
                   result, order, queue, arrived, pending, end_time, ans,
                   src, winner, exc, timedOut, netCalls, foundAt, arg, out>>

\* the same, with the AttributeError of the loop body propagating out of
\* web_lookup and out of answer_question
Raise ==
    /\ pc = "shutdown"
    /\ exc
    /\ \A a \in Adapters : tstate[a] = "done"
    /\ returnedAt' = now
    /\ pc' = "raised"
    /\ UNCHANGED <<q, now, q2, tstate, wikiStep, wikiTitle, callStart,
                   result, order, queue, arrived, pending, end_time, ans,
                   src, winner, exc, timedOut, netCalls, foundAt, reply,
                   arg, out>>

\* the request thread has a step to take now
ThreadReady ==
    \/ pc \in {"start", "submit_wiki", "submitted"}
    \/ pc = "race" /\ (queue # <<>> \/ pending = {} \/ arrived # <<>>
                        \/ now >= end_time)
    \/ pc = "shutdown" /\ \A a \in Adapters : tstate[a] = "done"

\* the instants at which something must happen: a call in flight reaches
\* CallLimit, the wait of as_completed reaches its deadline
Expiries ==
    {callStart[a] + CallLimit : a \in {b \in Adapters : tstate[b] = "run"}}
    \cup (IF pc = "race" THEN {end_time} ELSE {})

\* time passes while the request thread is blocked, no submitted task is
\* waiting for a worker and a task is running
Tick ==
    /\ pc \in {"race", "shutdown"}
    /\ ~ThreadReady
    /\ \A a \in Adapters : tstate[a] # "queued"
    /\ \E a \in Adapters : tstate[a] = "run"
    /\ \A e \in Expiries : e > now
    /\ now' = Min({now + TimeStep} \cup Expiries)
    /\ UNCHANGED <<q, pc, q2, tstate, wikiStep, wikiTitle, callStart, result,
                   order, queue, arrived, pending, end_time, ans, src,
                   winner, exc, timedOut, netCalls, foundAt, returnedAt,
                   reply, arg, out>>

Next ==
    \/ Refuse
    \/ RuleReply
    \/ SubmitDDG
    \/ SubmitWiki
    \/ StartDDG
    \/ StartWiki
    \/ DDGRespond
    \/ WikiNoTitle
    \/ WikiTitle
    \/ WikiSummary
    \/ EnterAsCompleted
    \/ Yield
    \/ Wake
    \/ Timeout
    \/ Exhausted
    \/ Return
    \/ Raise
    \/ Tick

Spec == Init /\ [][Next]_vars

----------------------------------------------------------------------------
(* short and rule_answer on their own: the input is drawn, the function   *)
(* is applied                                                              *)

MaxLen == 5
MaxLimit == 4

TextAlphabet == {"a", " ", "\n", VT}

RECURSIVE TextsUpTo(_)
TextsUpTo(n) ==
    IF n = 0 THEN {""}
    ELSE {""} \cup {c \o s : c \in TextAlphabet, s \in TextsUpTo(n - 1)}

InitShort ==
    /\ arg \in [text : TextsUpTo(MaxLen), limit : 2..MaxLimit]
    /\ out = ""
    /\ pc = "short"
    /\ q = ""
    /\ Idle

ApplyShort ==
    /\ pc = "short"
    /\ out' = short(arg.text, arg.limit)
    /\ pc' = "short_done"
    /\ UNCHANGED <<q, raceVars, reply, arg>>

SpecShort == InitShort /\ [][ApplyShort]_vars

RuleQuestions ==
    {h \o s \o p \o d :
        h \in {"", "How to help ", "RESCUE ", "What can I do, "},
        s \in {"", "a sea otter ", "Sea Otters ", "otter "},
        p \in {"", "predators of sea otters ", "Who eats sea otters "},
        d \in {"", "current threats", "Reasons for Decline?"}}

InitRules ==
    /\ arg \in RuleQuestions
    /\ out = ""
    /\ pc = "rule"
    /\ q = ""
    /\ Idle

ApplyRule ==
    /\ pc = "rule"
    /\ out' = rule_answer(arg)
    /\ pc' = "rule_done"
    /\ UNCHANGED <<q, raceVars, reply, arg>>

SpecRules == InitRules /\ [][ApplyRule]_vars

----------------------------------------------------------------------------
(* the claims *)

\* web_lookup was called and has returned to answer_question
LookupReturned == pc = "done" /\ tstate["ddg"] = "done"

\* the question contains a domain keyword
MentionsOtter(s) ==
    LET l == Lower(s)
    IN  \E w \in {"sea otter", "sea otters", "otter", "otters"} :
            Contains(l, w)

\* the question matches a group of the rule table
MatchesRule(s) ==
    LET l == Lower(s)
    IN  help_trigger(l) \/ predators_trigger(l) \/ drivers_trigger(l)

\* C1: every reply of answer_question, whatever its kind, is at most
\* ReplyLimit (240) characters long, ellipsis and source suffix included.
C1_ReplyBounded == pc = "done" => Len(reply) <= ReplyLimit

\* C2: when no adapter gives a usable result before the deadline of the
\* race, web_lookup returns ("", "") and returns no later than the deadline
\* (one step of the clock is allowed as scheduling tolerance).
C2_ReturnsByDeadline ==
    (LookupReturned /\ winner = "none")
        => /\ ans = "" /\ src = ""
           /\ returnedAt <= end_time + TimeStep

\* the future's result is a non-empty, non-whitespace string
Usable(a) == result[a].t = "str" /\ Strip(result[a].s) # ""

\* the first task in completion order whose result is usable
FirstUsable ==
    LET hits == {i \in 1..Len(order) : Usable(order[i])}
    IN  IF hits = {} THEN "none"
        ELSE order[CHOOSE i \in hits : \A j \in hits : i <= j]

\* C3: the result web_lookup returns is that of the first task, in
\* completion order, whose result is non-empty and non-whitespace; a task
\* that completed later never replaces it.
C3_FirstUsableWins ==
    (LookupReturned /\ winner # "none")
        => winner = FirstUsable /\ ans = result[FirstUsable].s

\* C4: once a task has completed with a usable result web_lookup returns it
\* at once, without waiting for the task still in flight.
C4_ReturnsAtOnce ==
    (LookupReturned /\ winner # "none") => returnedAt = foundAt

\* C5: HTTP requests are issued only for a question that contains a domain
\* keyword and matches no rule group; a question without a domain keyword
\* gets a refusal message, also when it matches a rule group, and an
\* in-domain question matching a rule group gets a canned answer, both
\* without any request.
C5_NetworkOnlyWhenNeeded ==
    /\ netCalls > 0 => MentionsOtter(q) /\ ~MatchesRule(q)
    /\ (pc = "done" /\ ~MentionsOtter(q))
          => reply \in SEA_OTTER_ONLY_MESSAGES /\ netCalls = 0
    /\ (pc = "done" /\ MentionsOtter(q) /\ MatchesRule(q))
          => /\ reply \in {HELP_ANSWER, PREDATORS_ANSWER, DRIVERS_ANSWER}
             /\ netCalls = 0

\* a question that matches a rule group is refused without any request,
\* because it holds no domain keyword
C5_Witness ==
    /\ pc = "done"
    /\ drivers_trigger(Lower(q))
    /\ reply \in SEA_OTTER_ONLY_MESSAGES
    /\ netCalls = 0

\* C6: rule_answer gives the canned answer of the first matching group in
\* the order help/rescue, predators, decline drivers, and "" when no group
\* matches.
C6_RulePriority ==
    pc = "rule_done" =>
        LET l == Lower(arg)
        IN  /\ help_trigger(l) => out = HELP_ANSWER
            /\ (~help_trigger(l) /\ predators_trigger(l))
                  => out = PREDATORS_ANSWER
            /\ (~help_trigger(l) /\ ~predators_trigger(l)
                                  /\ drivers_trigger(l))
                  => out = DRIVERS_ANSWER
            /\ ~MatchesRule(arg) => out = ""

\* a question matching the help/rescue, predator and decline groups at once
\* got the help/rescue answer
C6_Witness ==
    /\ pc = "rule_done"
    /\ help_trigger(Lower(arg))
    /\ predators_trigger(Lower(arg))
    /\ drivers_trigger(Lower(arg))
    /\ out = HELP_ANSWER

\* C7: answer_question never raises and its reply is never empty, whatever
\* the adapters' exchanges give.
C7_NeverRaises == pc # "raised" /\ (pc = "done" => reply # "")

\* C8: after web_lookup, the reply is the fallback message exactly when
\* the answer is empty or the question mentions "otter" and the answer does
\* not, ignoring case; otherwise it is the answer cut to the reply limit,
\* followed by " (Source: <label>)" with the winning adapter's label.
C8_FallbackOrSourcedAnswer ==
    LookupReturned =>
        IF \/ ans = ""
           \/ Contains(Lower(q), "otter") /\ ~Contains(Lower(ans), "otter")
        THEN reply = FALLBACK_REPLY
        ELSE /\ reply # FALLBACK_REPLY
             /\ reply = short(ans, ReplyLimit) \o " (Source: "
                        \o (IF winner = "ddg" THEN "DuckDuckGo"
                            ELSE "Wikipedia") \o ")"

\* an answer longer than the reply limit was cut and given its source
C8_Witness ==
    /\ LookupReturned
    /\ winner = "wiki"
    /\ Len(JoinSplit(ans)) > ReplyLimit
    /\ reply # FALLBACK_REPLY
    /\ Contains(reply, Ellipsis \o " (Source: Wikipedia)")

\* C9 as stated: the output of short is at most limit long, and equals the
\* input whenever the input is at most limit long.
C9_Original ==
    pc = "short_done" =>
        /\ Len(out) <= arg.limit
        /\ Len(arg.text) <= arg.limit => out = arg.text

\* the text has no whitespace but single spaces between its words
SingleSpaced(s) ==
    /\ \A i \in 1..Len(s) : IsSpace(CharAt(s, i)) => CharAt(s, i) = " "
    /\ s # "" => CharAt(s, 1) # " " /\ CharAt(s, Len(s)) # " "
    /\ ~Contains(s, "  ")

\* C9, amended: the output of short is at most limit long, and equals the
\* input whenever the input is at most limit long and has no whitespace but
\* single spaces between its words.
C9_Amended ==
    pc = "short_done" =>
        /\ Len(out) <= arg.limit
        /\ (Len(arg.text) <= arg.limit /\ SingleSpaced(arg.text))
              => out = arg.text

\* a text longer than the limit was cut to exactly the limit
C9_Witness ==
    /\ pc = "short_done"
    /\ Len(JoinSplit(arg.text)) > arg.limit
    /\ Len(out) = arg.limit

\* C10 as stated: the label names the adapter that produced the answer and,
\* for the encyclopedia adapter, the page title used; it is empty exactly
\* when the answer is.
C10_Original ==
    LookupReturned =>
        /\ src = "" <=> ans = ""
        /\ winner = "ddg" => src = "DuckDuckGo"
        /\ winner = "wiki"
              => Contains(src, "Wikipedia") /\ Contains(src, wikiTitle.s)

\* C10, amended: the label names the adapter that produced the answer,
\* "DuckDuckGo" or "Wikipedia", and for the encyclopedia adapter it is the
\* bare word "Wikipedia" whatever page title was used; it is empty exactly
\* when the answer is.
C10_Amended ==
    LookupReturned =>
        /\ src = "" <=> ans = ""
        /\ winner = "none" <=> ans = ""
        /\ winner = "ddg" => src = "DuckDuckGo" /\ ans = result["ddg"].s
        /\ winner = "wiki" => src = "Wikipedia" /\ ans = result["wiki"].s

\* the encyclopedia adapter won with the summary of the page "Otter"
C10_Witness ==
    /\ LookupReturned
    /\ winner = "wiki"
    /\ wikiTitle = Str("Otter")
    /\ src = "Wikipedia"

=============================================================================
